---- MODULE Spec2Model ----
(***************************************************************************)
(* Flag battle arena: the Game component (src/components/Game.tsx) and the *)
(* App state that drives it (src/App.tsx).                                 *)
(*                                                                         *)
(* Scheduling.  Everything runs on the browser's main thread.  A click     *)
(* handler's state updates are rendered, and the effects they trigger are  *)
(* run, before the handler's task ends, so a click is one step together    *)
(* with the effects it re-runs.  A timer callback's updates are rendered   *)
(* in a later task; the tick handler gives the same result whether it runs *)
(* just before the callback or between the callback and its render, so a   *)
(* timer callback is one step with its render as well.  The one update     *)
(* made inside the tick handler and read back by it, setVictoryFlagId, is  *)
(* kept pending (victoryFlagId vs loopVictoryFlagId) until Rerender: a     *)
(* frame can run before the handler is registered again.                   *)
(*                                                                         *)
(* Physics (matter-js) is external: a step moves every non-static token to *)
(* any of a few representative positions, whatever its position before.    *)
(* pos and vel therefore hold what the tick handler last read and wrote: a *)
(* tick that returns at a gate reads no position, and the next step moves  *)
(* the tokens again before anything can.                                   *)
(*                                                                         *)
(* There is no clock: pending timers fire in any order.                    *)
(***************************************************************************)
EXTENDS Integers, Sequences, FiniteSets, TLC

VARIABLES
    status,             \* App: GameStatus
    winner,             \* App: winner (entrant or Null)
    paused,             \* App: isPaused, the Game's paused prop
    targetWinnerId,     \* App: targetWinnerId (entrant or Null)
    gapSize,            \* App: gapSize, the Game's gapSize prop
    activeCountries,    \* App: activeCountries, the last ActiveRanking snapshot
    eliminatedCount,    \* App: eliminatedCount
    countdown,          \* Game: countdown state (NoCountdown is null)
    timerArmed,         \* Game: the countdown effect's setTimeout is pending
    gravityOn,          \* engine.gravity.scale # 0
    runnerRunning,      \* the matter-js Runner drives engine updates
    frameCount,         \* frameCountRef, kept modulo RankEvery
    rotation,           \* rotationRef, in steps of omega past its initial value
    boundaryParts,      \* boundaryPartsRef: the placement of every segment body
    alive,              \* tokens in the world, by entrant; bodies are listed in entrant order
    pos,                \* position of every token in the world, as of the last scan
    vel,                \* velocity of every token in the world (Zero / Moving)
    staticFlags,        \* bodies made static
    hasEnded,           \* hasEndedRef
    victoryFlagId,      \* Game: victoryFlagId state (value of the last setVictoryFlagId)
    loopVictoryFlagId,  \* victoryFlagId as captured by the registered tick handler
    gameEndTimers,      \* pending setTimeout(() => onGameEnd(winner), 3500) callbacks:
                        \* [winner, stale: set by an earlier Game instance]
    countdownTicks,     \* history: onCountdownTick values of this instance
    winnersDetected,    \* history: onWinnerDetected entrants of this instance
    gameEndedLog,       \* history: winners of the onGameEnd callbacks this instance
                        \* set and got delivered
    wiped,              \* history: a tick of this instance removed the last >= 2 tokens at once
    timerLeft,          \* time until the pending countdown setTimeout fires (0: due or none)
    sinceStep,          \* history: time the countdown timer has run since the last
                        \* countdown step of this instance (or its mount)
    staleCountdownTimers, \* countdown values captured by countdown timeouts still
                        \* pending from Game instances that were unmounted
    lastTick            \* history: what the last step did, if it was a tick; after
                        \* a mount, whether a countdown timeout was pending before it

vars == <<status, winner, paused, targetWinnerId, gapSize, activeCountries,
          eliminatedCount, countdown,
          timerArmed, gravityOn, runnerRunning, frameCount, rotation,
          boundaryParts, alive, pos, vel, staticFlags, hasEnded, victoryFlagId,
          loopVictoryFlagId, gameEndTimers, countdownTicks, winnersDetected,
          gameEndedLog, wiped, timerLeft, sinceStep,
          staleCountdownTimers, lastTick>>

(***************************************************************************)
(* Bounds of the model.                                                    *)
(***************************************************************************)
NumEntrants == 2        \* size of COUNTRIES
MaxStaleTimers == 1     \* game-end timers pending when a Game instance is replaced
MaxRotation == 3        \* rotation steps per instance
MaxGapInput == 101      \* largest gapSize prop tried on boundary generation alone
TimeGrain == 3          \* time passes in steps of interval / TimeGrain
MaxCarried == 1         \* largest eliminatedCount a theme or bounce change is tried with

(***************************************************************************)
(* Program constants.                                                      *)
(***************************************************************************)
CANVAS_SIZE == 800
CENTER_X == CANVAS_SIZE \div 2
CENTER_Y == (CANVAS_SIZE \div 2) + 60
SEGMENT_COUNT == 100
VIRTUAL_GAP_START == (SEGMENT_COUNT * 75) \div 100
OutRadius == 480
FallThroughY == 950
RankEvery == 15
CountdownStart == 3
interval == 1200
DefaultGap == 8
MaxGap == 25
Null == 0
NoCountdown == -1

Entrants == 1..NumEntrants
GapChoices == {DefaultGap, MaxGap}

Zero == "zero"
Moving == "moving"
Center == <<CENTER_X, CENTER_Y>>
Spawn == <<CENTER_X, CENTER_Y + 40>>
\* where a physics step may leave a token: inside the ring, or fallen out
\* below the arena (farther than OutRadius and lower than FallThroughY)
PhysPositions == {<<CENTER_X, CENTER_Y + 40>>, <<CENTER_X, CENTER_Y + 540>>}

NoTick == [gate |-> "none"]

(***************************************************************************)
(* Boundary generation and the rotation driver.                            *)
(***************************************************************************)
\* A segment placed for slot index i under rotation rot: its position is
\* CENTER + R * (cos, sin)(2*pi*i/SEGMENT_COUNT + rot) and its angle the
\* tangent there, both periodic in i with period SEGMENT_COUNT.  The pair
\* (slot, rot) is kept as one number.
Placement(i, rot) == (i % SEGMENT_COUNT) + SEGMENT_COUNT * rot
SlotOf(placement) == placement % SEGMENT_COUNT
RotationOf(placement) == placement \div SEGMENT_COUNT

\* the test of the generation loop's `continue`
InGapWindow(i, gap) == i >= VIRTUAL_GAP_START /\ i < VIRTUAL_GAP_START + gap

\* the generation loop: parts pushed for i = 0 .. SEGMENT_COUNT-1, gap skipped
GenerateBoundary(gap, rot) ==
    LET slots == SelectSeq([k \in 1..SEGMENT_COUNT |-> k - 1],
                           LAMBDA i : ~InGapWindow(i, gap))
    IN  [k \in 1..Len(slots) |-> Placement(slots[k], rot)]

\* the values of GenerateBoundary, tabulated once
GeneratedBoundary ==
    [g \in 0..MaxGapInput |-> [rot \in 0..MaxRotation |-> GenerateBoundary(g, rot)]]

\* AdjustedIndex without the offset past the gap
AdjustedIndexNoOffset(i, gap) == i

\* the tick's adjustedIndex for the part at array index i
AdjustedIndex(i, gap) == IF i >= VIRTUAL_GAP_START THEN i + gap ELSE i

\* boundaryPartsRef.current.forEach((part, i) => setPosition / setAngle)
RepositionBoundary(parts, gap, rot) ==
    [k \in 1..Len(parts) |-> Placement(AdjustedIndex(k - 1, gap), rot)]

(***************************************************************************)
(* Elimination scan, ranking, winner detection.                            *)
(***************************************************************************)
DistSq(p) == (p[1] - CENTER_X) * (p[1] - CENTER_X) + (p[2] - CENTER_Y) * (p[2] - CENTER_Y)

\* distFromCenter > 480 || flag.position.y > 950
PastThreshold(p) == DistSq(p) > OutRadius * OutRadius \/ p[2] > FallThroughY

\* Composite.allBodies order of the flags: the order they were added in
RECURSIVE AllBodiesOrder(_)
AllBodiesOrder(S) ==
    IF S = {} THEN <<>>
    ELSE LET m == CHOOSE x \in S : \A y \in S : x <= y
         IN  <<m>> \o AllBodiesOrder(S \ {m})

RECURSIVE InsertByDistance(_, _, _)
InsertByDistance(s, f, p) ==
    IF s = <<>> THEN <<f>>
    ELSE IF DistSq(p[f]) < DistSq(p[Head(s)]) THEN <<f>> \o s
    ELSE <<Head(s)>> \o InsertByDistance(Tail(s), f, p)

\* [...activeFlags].sort((a, b) => distA - distB): a stable sort
RECURSIVE SortByDistance(_, _)
SortByDistance(s, p) ==
    IF s = <<>> THEN <<>>
    ELSE InsertByDistance(SortByDistance(SubSeq(s, 1, Len(s) - 1), p), s[Len(s)], p)

\* IsProtected with the alive-count test off by one
IsProtectedAboveTwo(code, activeCount) == targetWinnerId = code /\ activeCount > 2

\* targetWinnerId === country.code && activeFlags.length > 1
IsProtected(code, activeCount) == targetWinnerId = code /\ activeCount > 1

NoEvents == [e \in Entrants |-> 0]

\* ScanFlag with the Composite.remove of an elimination left out
ScanFlagKeepsBody(w, flag, activeCount) ==
    IF PastThreshold(w.pos[flag])
    THEN IF IsProtected(flag, activeCount)
         THEN [w EXCEPT !.pos[flag] = Center, !.vel[flag] = Zero,
                        !.rescued = @ \cup {flag}]
         ELSE [w EXCEPT !.elim[flag] = @ + 1]
    ELSE w

\* the body of activeFlags.forEach for one flag; w is the world being scanned
ScanFlag(w, flag, activeCount) ==
    IF PastThreshold(w.pos[flag])
    THEN IF IsProtected(flag, activeCount)
         THEN [w EXCEPT !.pos[flag] = Center, !.vel[flag] = Zero,
                        !.rescued = @ \cup {flag}]
         ELSE [w EXCEPT !.elim[flag] = @ + 1, !.alive = @ \ {flag}]
    ELSE w

RECURSIVE ScanFrom(_, _, _, _)
ScanFrom(w, order, i, activeCount) ==
    IF i > Len(order) THEN w
    ELSE ScanFrom(ScanFlag(w, order[i], activeCount), order, i + 1, activeCount)

\* DetectsWinner without the hasEndedRef test
DetectsWinnerUnguarded(activeCount, ended) == activeCount = 1

\* DetectsWinner accepting any nonempty snapshot
DetectsWinnerAnyCount(activeCount, ended) == activeCount >= 1 /\ ~ended

\* activeFlags.length === 1 && !hasEndedRef.current
DetectsWinner(activeCount, ended) == activeCount = 1 /\ ~ended

\* LoopGate without the `status !== PLAYING` return
LoopGateNoStatus ==
    IF paused THEN "paused"
    ELSE IF loopVictoryFlagId # Null THEN "latched"
    ELSE "ran"

\* the early returns of loop and its victoryFlagId gate
LoopGate ==
    IF paused THEN "paused"
    ELSE IF status # "PLAYING" THEN "notPlaying"
    ELSE IF loopVictoryFlagId # Null THEN "latched"
    ELSE "ran"

\* the countdown effect's guard: a timer is set unless it returns early
CountdownTimerSet(p, cd, st) == ~(p \/ cd = NoCountdown \/ st # "STARTING")

\* setTimeout(..., interval) when the countdown effect sets a timer
TimerDelay(armed) == IF armed THEN interval ELSE 0

\* the mount effect `if (countdown === 3 && status === STARTING) onCountdownTick(3)`,
\* run with the countdown of the first render
MountCountdownTick(cd, st) ==
    IF cd = CountdownStart /\ st = "STARTING" THEN <<CountdownStart>> ELSE <<>>

(***************************************************************************)
(* Initial state: App mounted, its mount effect handleRestart() done, the  *)
(* Game instance for the new key mounted and its effects run.              *)
(***************************************************************************)
Init ==
    /\ status = "STARTING"
    /\ winner = Null
    /\ paused = FALSE
    /\ targetWinnerId = Null
    /\ gapSize = DefaultGap
    /\ activeCountries = <<>>
    /\ eliminatedCount = 0
    /\ countdown = CountdownStart
    /\ timerArmed = CountdownTimerSet(FALSE, CountdownStart, "STARTING")
    /\ gravityOn = FALSE
    /\ runnerRunning = TRUE
    /\ frameCount = 0
    /\ rotation = 0
    /\ boundaryParts = GenerateBoundary(DefaultGap, 0)
    /\ alive = Entrants
    /\ pos = [f \in Entrants |-> Spawn]
    /\ vel = [f \in Entrants |-> Zero]
    /\ staticFlags = {}
    /\ hasEnded = FALSE
    /\ victoryFlagId = Null
    /\ loopVictoryFlagId = Null
    /\ gameEndTimers = {}
    /\ countdownTicks = MountCountdownTick(NoCountdown, "STARTING")
    /\ winnersDetected = <<>>
    /\ gameEndedLog = <<>>
    /\ wiped = FALSE
    /\ timerLeft = TimerDelay(CountdownTimerSet(FALSE, CountdownStart, "STARTING"))
    /\ sinceStep = 0
    /\ staleCountdownTimers = {}
    /\ lastTick = NoTick

(***************************************************************************)
(* The tick: Engine.update (physics) followed by the afterUpdate handler   *)
(* `loop`.                                                                 *)
(***************************************************************************)
appVars == <<status, winner, paused, targetWinnerId, gapSize>>
timeVars == <<timerLeft, sinceStep>>

\* loop past its gates, after the rotation driver: ranking, elimination
\* scan and winner detection on the positions pos1 the physics step left
ScanAndDetect(pos1, vel1) ==
    LET activeFlags == alive
        order == AllBodiesOrder(activeFlags)
        n == Len(order)
        frame == (frameCount + 1) % RankEvery
        detects == DetectsWinner(n, hasEnded)
        first == order[1]
        w0 == [alive |-> activeFlags, pos |-> pos1, vel |-> vel1,
               elim |-> NoEvents, rescued |-> {}]
    IN  \E w \in {ScanFrom(w0, order, 1, n)} :
        /\ alive' = w.alive
        /\ pos' = [f \in w.alive |-> w.pos[f]]
        /\ vel' = [f \in w.alive |-> w.vel[f]]
        /\ hasEnded' = (hasEnded \/ detects)
        /\ victoryFlagId' = IF detects THEN first ELSE victoryFlagId
        /\ staticFlags' = IF detects THEN staticFlags \cup {first} ELSE staticFlags
        /\ winnersDetected' = IF detects THEN Append(winnersDetected, first)
                              ELSE winnersDetected
        /\ gameEndTimers' = IF detects
                            THEN gameEndTimers \cup
                                 {[winner |-> first, stale |-> FALSE]}
                            ELSE gameEndTimers
        /\ wiped' = (wiped \/ (n >= 2 /\ w.alive = {}))
        /\ lastTick' = [gate |-> "ran", before |-> activeFlags,
                        outside |-> {f \in activeFlags : PastThreshold(pos1[f])},
                        elim |-> w.elim, rescued |-> w.rescued,
                        rankEmitted |-> (frame = 0),
                        ranked |-> IF frame = 0
                                   THEN SortByDistance(order, pos1)
                                   ELSE <<>>,
                        dist |-> [f \in activeFlags |-> DistSq(pos1[f])],
                        detected |-> IF detects THEN first ELSE Null,
                        hadEnded |-> hasEnded]

\* loop past its gates; the physics step of this tick moved the dynamic bodies
RunCore ==
    /\ frameCount' = (frameCount + 1) % RankEvery
    /\ rotation' = rotation + 1
    /\ boundaryParts' = RepositionBoundary(boundaryParts, gapSize, rotation + 1)
    /\ \E phys \in [alive \ staticFlags -> PhysPositions] :
          ScanAndDetect([f \in alive |-> IF f \in DOMAIN phys THEN phys[f] ELSE pos[f]],
                        [f \in alive |-> IF f \in DOMAIN phys THEN Moving ELSE vel[f]])

\* loop returning at one of its gates
SkipCore(gate) ==
    /\ frameCount' = IF gate = "paused" THEN frameCount ELSE (frameCount + 1) % RankEvery
    /\ lastTick' = [gate |-> gate, before |-> alive, outside |-> {}, elim |-> NoEvents,
                    rescued |-> {}, rankEmitted |-> FALSE, ranked |-> <<>>,
                    dist |-> <<>>, detected |-> Null, hadEnded |-> hasEnded]
    /\ UNCHANGED <<rotation, boundaryParts, alive, pos, vel, staticFlags, hasEnded,
                   victoryFlagId, winnersDetected, gameEndTimers, wiped>>

GameTick ==
    /\ runnerRunning
    /\ \E gate \in {LoopGate} :
          IF gate = "ran"
          THEN rotation < MaxRotation /\ RunCore
          ELSE SkipCore(gate)
    /\ UNCHANGED <<appVars, countdown, timerArmed, gravityOn, runnerRunning,
                   loopVictoryFlagId, countdownTicks, gameEndedLog, timeVars,
                   staleCountdownTimers>>

\* the tick as the Game takes it: the events it emits are in lastTick
Tick == GameTick /\ UNCHANGED <<activeCountries, eliminatedCount>>

\* onActiveUpdate={setActiveCountries} on the snapshot a tick emitted
OnActiveUpdate(tick) ==
    activeCountries' = IF tick.rankEmitted THEN tick.ranked ELSE activeCountries

\* handleElimination, once for every Eliminated a tick emitted
OnElimination(tick) ==
    eliminatedCount' = eliminatedCount + Cardinality({f \in Entrants : tick.elim[f] > 0})

\* the tick together with the App's handlers of its events
TickApp == GameTick /\ OnActiveUpdate(lastTick') /\ OnElimination(lastTick')

\* React renders the pending setVictoryFlagId and registers the tick handler again
Rerender ==
    /\ loopVictoryFlagId # victoryFlagId
    /\ loopVictoryFlagId' = victoryFlagId
    /\ lastTick' = NoTick
    /\ UNCHANGED <<appVars, activeCountries, eliminatedCount, countdown, timerArmed,
                   gravityOn, runnerRunning, frameCount, rotation, boundaryParts,
                   alive, pos, vel, staticFlags, hasEnded,
                   victoryFlagId, gameEndTimers, countdownTicks, winnersDetected,
                   gameEndedLog, wiped, timeVars, staleCountdownTimers>>

(***************************************************************************)
(* Mounting a Game instance: first render plus its mount effects.          *)
(***************************************************************************)
\* UnmountCountdownTimer with the countdown effect's cleanup left out
UnmountLeavesTimer(stale, armed, cd) == IF armed THEN stale \cup {cd} ELSE stale

\* the countdown effect's cleanup `clearTimeout(timer)` when the instance is
\* unmounted: the stale countdown timeouts afterwards
UnmountCountdownTimer(stale, armed, cd) == stale

\* st, p: the status and paused props the new instance is rendered with
MountGame(st, p) ==
    /\ staleCountdownTimers' = UnmountCountdownTimer(staleCountdownTimers, timerArmed, countdown)
    /\ countdown' = CountdownStart
    /\ timerArmed' = CountdownTimerSet(p, CountdownStart, st)
    /\ timerLeft' = TimerDelay(CountdownTimerSet(p, CountdownStart, st))
    /\ sinceStep' = 0
    /\ gravityOn' = FALSE
    /\ runnerRunning' = ~p
    /\ frameCount' = 0
    /\ rotation' = 0
    /\ boundaryParts' = GeneratedBoundary[gapSize][0]
    /\ alive' = Entrants
    /\ pos' = [f \in Entrants |-> Spawn]
    /\ vel' = [f \in Entrants |-> Zero]
    /\ staticFlags' = {}
    /\ hasEnded' = FALSE
    /\ victoryFlagId' = Null
    /\ loopVictoryFlagId' = Null
    /\ countdownTicks' = MountCountdownTick(NoCountdown, st)
    /\ winnersDetected' = <<>>
    /\ gameEndedLog' = <<>>
    /\ wiped' = FALSE
    /\ lastTick' = [gate |-> "none", cancelled |-> timerArmed]

\* the victory overlay covers every control but its own restart button
OverlayShown == status = "FINISHED" /\ winner # Null

tickVars == <<frameCount, rotation, alive, pos, vel, staticFlags, hasEnded,
              victoryFlagId, winnersDetected, wiped, activeCountries,
              eliminatedCount>>

(***************************************************************************)
(* Timer callbacks.                                                        *)
(***************************************************************************)
\* the callback of a countdown timeout of an unmounted instance: its
\* setCountdown and its engine belong to that instance, its props callbacks
\* reach the App
StaleCountdownCallback(cd) ==
    /\ staleCountdownTimers' = staleCountdownTimers \ {cd}
    /\ IF cd - 1 < 0
       THEN /\ status' = "PLAYING"
            /\ countdownTicks' = Append(countdownTicks, 0)
            /\ timerArmed' = CountdownTimerSet(paused, countdown, "PLAYING")
            /\ timerLeft' = TimerDelay(CountdownTimerSet(paused, countdown, "PLAYING"))
       ELSE /\ countdownTicks' = Append(countdownTicks, cd - 1)
            /\ UNCHANGED <<status, timerArmed, timerLeft>>
    /\ loopVictoryFlagId' = victoryFlagId
    /\ lastTick' = NoTick
    /\ UNCHANGED <<winner, paused, targetWinnerId, gapSize, countdown, gravityOn,
                   runnerRunning, boundaryParts, gameEndTimers, gameEndedLog,
                   sinceStep, tickVars>>

\* the countdown timeouts that can fire
PendingCountdownTimers ==
    (IF timerArmed THEN {[stale |-> FALSE, cd |-> countdown]} ELSE {})
    \cup {[stale |-> TRUE, cd |-> c] : c \in staleCountdownTimers}

\* the countdown effect's setTimeout callback, then the render of its updates
OwnCountdownCallback ==
    /\ timerArmed
    /\ LET next == countdown - 1
       IN  IF next < 0
           THEN /\ status' = "PLAYING"
                /\ countdownTicks' = Append(countdownTicks, 0)
                /\ gravityOn' = TRUE
                /\ countdown' = NoCountdown
                /\ timerArmed' = CountdownTimerSet(paused, NoCountdown, "PLAYING")
                /\ timerLeft' = TimerDelay(CountdownTimerSet(paused, NoCountdown, "PLAYING"))
           ELSE /\ countdownTicks' = Append(countdownTicks, next)
                /\ countdown' = next
                /\ timerArmed' = CountdownTimerSet(paused, next, status)
                /\ timerLeft' = TimerDelay(CountdownTimerSet(paused, next, status))
                /\ UNCHANGED <<status, gravityOn>>
    /\ sinceStep' = 0
    /\ loopVictoryFlagId' = victoryFlagId
    /\ lastTick' = NoTick
    /\ UNCHANGED <<winner, paused, targetWinnerId, gapSize, runnerRunning,
                   boundaryParts, gameEndTimers, gameEndedLog, staleCountdownTimers,
                   tickVars>>

CountdownTimerFire ==
    \E t \in PendingCountdownTimers :
        IF t.stale THEN StaleCountdownCallback(t.cd) ELSE OwnCountdownCallback

\* TimeoutFired for a timer that repeats (setInterval in place of setTimeout)
TimeoutRepeats(timers, t) == timers

\* a timeout is gone from the pending ones once it has fired
TimeoutFired(timers, t) == timers \ {t}

\* setTimeout(() => onGameEnd(winner), 3500) fires: handleGameEnd, then its render
GameEndTimerFire ==
    \E t \in gameEndTimers :
        /\ gameEndTimers' = TimeoutFired(gameEndTimers, t)
        /\ winner' = t.winner
        /\ status' = "FINISHED"
        /\ paused' = FALSE
        /\ runnerRunning' = TRUE
        /\ timerArmed' = CountdownTimerSet(FALSE, countdown, "FINISHED")
        /\ timerLeft' = TimerDelay(CountdownTimerSet(FALSE, countdown, "FINISHED"))
        /\ loopVictoryFlagId' = victoryFlagId
        /\ gameEndedLog' = IF t.stale THEN gameEndedLog
                           ELSE Append(gameEndedLog, t.winner)
        /\ lastTick' = NoTick
        /\ UNCHANGED <<targetWinnerId, gapSize, countdown, gravityOn,
                       boundaryParts, countdownTicks, sinceStep,
                       staleCountdownTimers, tickVars>>

(***************************************************************************)
(* Click handlers.                                                         *)
(***************************************************************************)
\* the pause button: setIsPaused(!isPaused); pause effect, countdown effect
TogglePause ==
    /\ ~OverlayShown
    /\ paused' = ~paused
    /\ runnerRunning' = paused
    /\ timerArmed' = CountdownTimerSet(~paused, countdown, status)
    /\ timerLeft' = TimerDelay(CountdownTimerSet(~paused, countdown, status))
    /\ lastTick' = NoTick
    /\ UNCHANGED <<status, winner, targetWinnerId, gapSize, countdown,
                   gravityOn, boundaryParts, loopVictoryFlagId, gameEndTimers,
                   countdownTicks, gameEndedLog, sinceStep, staleCountdownTimers,
                   tickVars>>

\* handleRestart(): every call site passes no rigged country
Restart ==
    /\ Cardinality(gameEndTimers) <= MaxStaleTimers
    /\ winner' = Null
    /\ status' = "STARTING"
    /\ paused' = FALSE
    /\ targetWinnerId' = Null
    /\ gameEndTimers' = {[t EXCEPT !.stale = TRUE] : t \in gameEndTimers}
    /\ eliminatedCount' = 0
    /\ MountGame("STARTING", FALSE)
    /\ UNCHANGED <<gapSize, activeCountries>>

\* setTheme / setBounceIntensity with a new value: the Game key changes
ChangeThemeOrBounce ==
    /\ ~OverlayShown
    /\ eliminatedCount <= MaxCarried
    /\ Cardinality(gameEndTimers) <= MaxStaleTimers
    /\ gameEndTimers' = {[t EXCEPT !.stale = TRUE] : t \in gameEndTimers}
    /\ MountGame(status, paused)
    /\ UNCHANGED <<status, winner, paused, targetWinnerId, gapSize, activeCountries,
                   eliminatedCount>>

\* the boundary effect re-run for a gapSize prop g
BoundaryEffect(g) ==
    /\ gapSize' = g
    /\ boundaryParts' = GeneratedBoundary[g][rotation]
    /\ lastTick' = NoTick
    /\ UNCHANGED <<status, winner, paused, targetWinnerId, countdown,
                   timerArmed, gravityOn, runnerRunning, loopVictoryFlagId,
                   gameEndTimers, countdownTicks, gameEndedLog, timeVars,
                   staleCountdownTimers, tickVars>>

\* the gap-size slider
SetGapSize ==
    /\ ~OverlayShown
    /\ \E g \in GapChoices \ {gapSize} : BoundaryEffect(g)

\* the rows of the sidebar list: activeCountries.filter(...).map(...)
SidebarRows == {activeCountries[i] : i \in 1..Len(activeCountries)}

\* the targetWinnerId prop set to the code of any entrant
SetTargetTo(codes) ==
    /\ ~OverlayShown
    /\ \E c \in codes \ {targetWinnerId} : targetWinnerId' = c
    /\ lastTick' = NoTick
    /\ UNCHANGED <<status, winner, paused, gapSize, countdown, timerArmed,
                   gravityOn, runnerRunning, boundaryParts, loopVictoryFlagId,
                   gameEndTimers, countdownTicks, gameEndedLog, timeVars,
                   staleCountdownTimers, tickVars>>

SetTarget == SetTargetTo(Entrants)

\* a click on a row of the sidebar list
SetTargetRow == SetTargetTo(SidebarRows)

Next ==
    \/ Tick
    \/ Rerender
    \/ CountdownTimerFire
    \/ GameEndTimerFire
    \/ TogglePause
    \/ Restart
    \/ ChangeThemeOrBounce
    \/ SetGapSize
    \/ SetTarget

Spec == Init /\ [][Next]_vars

(***************************************************************************)
(* The Game together with the App's own bookkeeping of its events: the     *)
(* leaderboard (activeCountries), from which the target is picked, and the *)
(* eliminated count.  Spec leaves these two at their initial values and    *)
(* lets the target be any entrant; every behaviour of SpecApp is, on the   *)
(* other variables, a behaviour of Spec.                                   *)
(***************************************************************************)
NextApp ==
    \/ TickApp
    \/ Rerender
    \/ CountdownTimerFire
    \/ GameEndTimerFire
    \/ TogglePause
    \/ Restart
    \/ ChangeThemeOrBounce
    \/ SetGapSize
    \/ SetTargetRow

SpecApp == Init /\ [][NextApp]_vars

(***************************************************************************)
(* Boundary generation alone, for any gapSize prop.                        *)
(***************************************************************************)
GapInputs == 0..MaxGapInput

InitBoundary ==
    /\ status = "STARTING"
    /\ winner = Null
    /\ paused = FALSE
    /\ targetWinnerId = Null
    /\ gapSize \in GapInputs
    /\ activeCountries = <<>>
    /\ eliminatedCount = 0
    /\ countdown = CountdownStart
    /\ timerArmed = CountdownTimerSet(FALSE, CountdownStart, "STARTING")
    /\ gravityOn = FALSE
    /\ runnerRunning = TRUE
    /\ frameCount = 0
    /\ rotation = 0
    /\ boundaryParts = GenerateBoundary(gapSize, 0)
    /\ alive = Entrants
    /\ pos = [f \in Entrants |-> Spawn]
    /\ vel = [f \in Entrants |-> Zero]
    /\ staticFlags = {}
    /\ hasEnded = FALSE
    /\ victoryFlagId = Null
    /\ loopVictoryFlagId = Null
    /\ gameEndTimers = {}
    /\ countdownTicks = MountCountdownTick(NoCountdown, "STARTING")
    /\ winnersDetected = <<>>
    /\ gameEndedLog = <<>>
    /\ wiped = FALSE
    /\ timerLeft = TimerDelay(CountdownTimerSet(FALSE, CountdownStart, "STARTING"))
    /\ sinceStep = 0
    /\ staleCountdownTimers = {}
    /\ lastTick = NoTick

RegenerateBoundary == \E g \in GapInputs \ {gapSize} : BoundaryEffect(g)

NextBoundary == RegenerateBoundary

SpecBoundary == InitBoundary /\ [][NextBoundary]_vars

(***************************************************************************)
(* Properties.  lastTick describes the tick that led to the current state  *)
(* (gate "none": the last step was no tick); a tick leaves targetWinnerId, *)
(* status and paused as they were, so these are read from the same state.  *)
(***************************************************************************)
TickHappened == lastTick.gate # "none"
TickRan == lastTick.gate = "ran"
EliminatedInTick == {f \in Entrants : lastTick.elim[f] > 0}

\* C1: in a tick that ran the scan with more than one token alive at its
\* start, the target winner's token, if past the elimination threshold, is
\* still in the world afterwards, no Eliminated was emitted for it, and it
\* sits at the arena center with zero velocity.
TargetRescued ==
    (TickRan /\ targetWinnerId \in lastTick.outside
             /\ Cardinality(lastTick.before) > 1)
    => /\ targetWinnerId \in alive
       /\ lastTick.elim[targetWinnerId] = 0
       /\ pos[targetWinnerId] = Center
       /\ vel[targetWinnerId] = Zero

\* C1 witness: a tick rescued the target while another token, also past the
\* threshold, was eliminated.
TargetRescuedWitness ==
    /\ TickRan
    /\ targetWinnerId \in lastTick.rescued
    /\ EliminatedInTick # {}

\* C2: a Game instance emits WinnerDetected at most once.
WinnerDetectedAtMostOnce == Len(winnersDetected) <= 1

\* C2 witness: after WinnerDetected, a tick ran the winner detection again
\* with exactly one token alive and hasEndedRef already set.
WinnerDetectedAtMostOnceWitness ==
    /\ TickRan
    /\ lastTick.hadEnded
    /\ Cardinality(lastTick.before) = 1
    /\ Len(winnersDetected) = 1

\* C3 (as claimed): while the restarted match is Starting, a game-end
\* callback set by an earlier Game instance is never delivered, so it does
\* not change status or winner.
StaleGameEndNeverDelivered ==
    [][(status = "STARTING" /\ \E t \in gameEndTimers \ gameEndTimers' : t.stale)
       => (status' = status /\ winner' = winner)]_vars

\* C4 (as claimed): the CountdownTick values of an instance that started in
\* Starting are 3, 2, 1, 0 in order, 3 emitted at the start: while counting
\* they are the prefix down to the current value, and once the countdown is
\* over they are exactly 3, 2, 1, 0.
CountdownSequence == <<3, 2, 1, 0>>
CountdownTicksAsClaimed ==
    /\ (status = "STARTING" /\ countdown # NoCountdown)
       => countdownTicks = SubSeq(CountdownSequence, 1, CountdownStart - countdown + 1)
    /\ countdown = NoCountdown => countdownTicks = CountdownSequence

\* C5: for every tick during Playing, each entrant gets at most one
\* Eliminated event, the tokens alive afterwards are exactly those alive
\* before minus the entrants an Eliminated was emitted for (so the counts
\* subtract), and a rescued token stays in the world with no event.
TokenConservation ==
    (TickHappened /\ status = "PLAYING")
    => /\ \A f \in Entrants : lastTick.elim[f] <= 1
       /\ EliminatedInTick \subseteq lastTick.before
       /\ alive = lastTick.before \ EliminatedInTick
       /\ Cardinality(alive) = Cardinality(lastTick.before) - Cardinality(EliminatedInTick)
       /\ lastTick.rescued \subseteq alive
       /\ lastTick.rescued \cap EliminatedInTick = {}

\* C5 witness: a tick that eliminated one token and left another alive.
TokenConservationWitness ==
    /\ TickRan
    /\ status = "PLAYING"
    /\ EliminatedInTick # {}
    /\ alive # {}
    /\ lastTick.rescued = {}

\* the slots no segment of the boundary occupies
OmittedSlots ==
    (0..(SEGMENT_COUNT - 1)) \ {SlotOf(boundaryParts[k]) : k \in 1..Len(boundaryParts)}

\* C6 (as claimed): for a gap size below SEGMENT_COUNT the boundary has
\* SEGMENT_COUNT - gapSize segments and the omitted slots are the gapSize
\* slots from VIRTUAL_GAP_START on.
BoundaryOmitsGapRun ==
    (gapSize >= 0 /\ gapSize < SEGMENT_COUNT)
    => /\ Len(boundaryParts) = SEGMENT_COUNT - gapSize
       /\ OmittedSlots = VIRTUAL_GAP_START..(VIRTUAL_GAP_START + gapSize - 1)

\* C7 (as claimed): for a gap size of SEGMENT_COUNT or more the boundary has
\* no segment.
BoundaryEmptyForFullGap == gapSize >= SEGMENT_COUNT => boundaryParts = <<>>

\* C8: once a tick has removed the last two or more tokens of an instance at
\* once, that instance has emitted no WinnerDetected, has no game-end
\* callback of its own pending and has had none delivered.
NoWinnerAfterWipe ==
    wiped => /\ winnersDetected = <<>>
             /\ gameEndedLog = <<>>
             /\ \A t \in gameEndTimers : t.stale

\* C8 witness: a tick found every token outside and removed them all, and a
\* later tick has run on the empty world.
NoWinnerAfterWipeWitness ==
    /\ wiped
    /\ TickRan
    /\ lastTick.before = {}

\* C9: a tick whose handler sees paused, or a status other than Playing,
\* leaves the rotation, every boundary segment's placement and the set of
\* alive tokens unchanged, and emits no Eliminated, ActiveRanking or
\* WinnerDetected.
GatedTickIsNoOp ==
    [][(lastTick'.gate # "none" /\ (paused \/ status # "PLAYING"))
       => /\ rotation' = rotation
          /\ boundaryParts' = boundaryParts
          /\ alive' = alive
          /\ lastTick'.elim = NoEvents
          /\ ~lastTick'.rankEmitted
          /\ lastTick'.detected = Null]_vars

\* C9 witness: a tick came during the countdown, with gravity still off.
GatedTickIsNoOpWitness ==
    /\ TickHappened
    /\ status = "STARTING"
    /\ ~paused
    /\ countdown # NoCountdown

\* C10 (as claimed): a tick that starts with hasEndedRef set does not advance
\* the rotation, move a boundary segment, remove or rescue a token, or emit
\* Eliminated.
LatchedTickIsNoOp ==
    [][(lastTick'.gate # "none" /\ hasEnded)
       => /\ rotation' = rotation
          /\ boundaryParts' = boundaryParts
          /\ alive' = alive
          /\ lastTick'.elim = NoEvents
          /\ lastTick'.rescued = {}]_vars

\* C12: of one Game instance, GameEnded is delivered at most once and only
\* for the entrant WinnerDetected was emitted for before; WinnerDetected is
\* emitted in the tick that sets hasEndedRef, and that tick only schedules
\* the GameEnded callback, which is delivered in a later step.
OwnGameEndTimers == {t \in gameEndTimers : ~t.stale}
GameEndedOnceAfterWinnerDetected ==
    /\ Len(gameEndedLog) <= 1
    /\ gameEndedLog # <<>> => (gameEndedLog = winnersDetected /\ OwnGameEndTimers = {})
    /\ \A t \in OwnGameEndTimers : winnersDetected = <<t.winner>> /\ gameEndedLog = <<>>
    /\ hasEnded <=> winnersDetected # <<>>
    /\ (TickRan /\ lastTick.detected # Null)
       => /\ winnersDetected = <<lastTick.detected>>
          /\ OwnGameEndTimers = {[winner |-> lastTick.detected, stale |-> FALSE]}
          /\ gameEndedLog = <<>>

\* C12 witness: the instance's own GameEnded has been delivered for the
\* entrant it detected as winner.
GameEndedOnceAfterWinnerDetectedWitness ==
    /\ gameEndedLog # <<>>
    /\ winnersDetected = gameEndedLog
    /\ status = "FINISHED"
    /\ winner = gameEndedLog[1]

\* the last step mounted a Game instance
JustMounted == lastTick.gate = "none" /\ "cancelled" \in DOMAIN lastTick

\* C13: no countdown timeout of an unmounted instance is ever pending, so
\* none fires in a later match; right after a mount the countdown is 3 with
\* no CountdownTick emitted yet and gravity off, and in Starting, unpaused,
\* the instance's own timeout is pending with the full interval.
CountdownCancelledOnRestart ==
    /\ staleCountdownTimers = {}
    /\ JustMounted
       => /\ countdown = CountdownStart
          /\ countdownTicks = <<>>
          /\ ~gravityOn
          /\ (status = "STARTING" /\ ~paused) => (timerArmed /\ timerLeft = interval)

\* C13 witness: a restart came while the countdown timeout of the previous
\* instance was pending.
CountdownCancelledOnRestartWitness ==
    /\ lastTick = [gate |-> "none", cancelled |-> TRUE]
    /\ status = "STARTING"
    /\ winner = Null
    /\ timerArmed

\* the slot the part at array position k was generated for: its index k - 1,
\* plus gap from VIRTUAL_GAP_START on
GeneratedFor(k, gap) == IF k - 1 >= VIRTUAL_GAP_START THEN k - 1 + gap ELSE k - 1

\* every part at the slot it was generated for, under each rotation; tabulated
PartsAtGeneratedSlots ==
    [g \in GapChoices |-> [rot \in 0..MaxRotation |->
        [k \in 1..(SEGMENT_COUNT - g) |-> Placement(GeneratedFor(k, g), rot)]]]

\* no part of a boundary lies in the gap window
NoPartInGap(parts, gap) ==
    \A k \in 1..Len(parts) : ~InGapWindow(SlotOf(parts[k]), gap)

\* NoPartInGap of the tabulated boundaries
GeneratedSlotsAvoidGap ==
    [g \in GapChoices |-> [rot \in 0..MaxRotation |->
        NoPartInGap(PartsAtGeneratedSlots[g][rot], g)]]

\* C14: a tick that passes the gates advances the rotation by one step,
\* keeps the number of segments, and places every segment at the slot it
\* had before, which is the slot it was generated for (its array index, plus
\* gapSize from VIRTUAL_GAP_START on), under the new rotation; no segment is
\* placed in the gap window.
RepositionKeepsSlots ==
    [][lastTick'.gate = "ran"
       => /\ rotation' = rotation + 1
          /\ Len(boundaryParts') = Len(boundaryParts)
          /\ boundaryParts = PartsAtGeneratedSlots[gapSize][rotation]
          /\ boundaryParts' = PartsAtGeneratedSlots[gapSize][rotation']
          /\ GeneratedSlotsAvoidGap[gapSize][rotation']]_vars

\* C14 witness: the second tick of an instance has repositioned a boundary
\* with the widest gap the slider allows.
RepositionKeepsSlotsWitness ==
    /\ TickRan
    /\ rotation >= 2
    /\ gapSize = MaxGap
    /\ Len(boundaryParts) = SEGMENT_COUNT - MaxGap

\* the snapshot of the last tick lists exactly the tokens alive at its start,
\* each once, closest to the center first
RankedIsSortedPermutation ==
    /\ Len(lastTick.ranked) = Cardinality(lastTick.before)
    /\ {lastTick.ranked[i] : i \in 1..Len(lastTick.ranked)} = lastTick.before
    /\ \A i, j \in 1..Len(lastTick.ranked) :
          i < j => lastTick.dist[lastTick.ranked[i]] <= lastTick.dist[lastTick.ranked[j]]

\* C15 (as claimed): a tick that emits an ActiveRanking snapshot emits a
\* permutation of the entrants alive at its start in non-decreasing distance
\* from the center, and does so only unpaused, in Playing, with hasEndedRef
\* not set, on a frame count that is a multiple of RankEvery.
RankingAsClaimed ==
    (TickHappened /\ lastTick.rankEmitted)
    => /\ RankedIsSortedPermutation
       /\ ~paused
       /\ status = "PLAYING"
       /\ frameCount = 0
       /\ ~lastTick.hadEnded

\* C16 (as claimed, its last consequence): when the GameEnded of an instance
\* is delivered for its winner X, the last ActiveRanking snapshot the App
\* holds lists no entrant other than X.
LastSnapshotIsWinnerAlone ==
    gameEndedLog # <<>> => SidebarRows \subseteq {gameEndedLog[1]}

\* C17 (as claimed): the entrant a tick emits WinnerDetected for has had no
\* Eliminated emitted in that tick, and its token is in the world after it.
WinnerNeverEliminated ==
    (TickRan /\ lastTick.detected # Null)
    => /\ lastTick.elim[lastTick.detected] = 0
       /\ lastTick.detected \in alive

\* C18 (as claimed): in Playing the instance's countdown is over and its
\* gravity is on, and a newly mounted instance starts in Starting with
\* countdown 3.
PlayingOnlyAfterOwnCountdown ==
    /\ status = "PLAYING" => (countdown = NoCountdown /\ gravityOn)
    /\ JustMounted => (status = "STARTING" /\ countdown = CountdownStart)

\* C19 (as claimed): eliminatedCount plus the number of tokens in the world
\* is the number of entrants, and eliminatedCount is 0 after every mount.
EliminatedCountMatchesWorld ==
    /\ eliminatedCount + Cardinality(alive) = NumEntrants
    /\ JustMounted => eliminatedCount = 0

(***************************************************************************)
(* The countdown with time: the pending countdown timeout fires when its   *)
(* delay has run out.  Time is only followed while that timeout is pending *)
(* (then the match is not paused); nothing else of this specification      *)
(* depends on time.                                                        *)
(***************************************************************************)
TimeStep == interval \div TimeGrain
MaxSinceStep == 2 * interval

Min(a, b) == IF a <= b THEN a ELSE b

\* time passes while the countdown timeout is pending
TimePasses ==
    /\ timerArmed
    /\ timerLeft > 0
    /\ sinceStep < MaxSinceStep
    /\ LET d == Min(TimeStep, timerLeft)
       IN  /\ timerLeft' = timerLeft - d
           /\ sinceStep' = sinceStep + d
    /\ lastTick' = NoTick
    /\ UNCHANGED <<appVars, countdown, timerArmed, gravityOn, runnerRunning,
                   boundaryParts, loopVictoryFlagId, gameEndTimers, countdownTicks,
                   gameEndedLog, staleCountdownTimers, tickVars>>

\* the countdown timeout fires once its delay has passed
CountdownTimerDue == timerLeft = 0 /\ CountdownTimerFire

NextCountdown ==
    \/ TimePasses
    \/ CountdownTimerDue
    \/ TogglePause
    \/ Restart

SpecCountdown == Init /\ [][NextCountdown]_vars

\* C11 (as claimed): while the match stays paused the countdown value does
\* not change and no CountdownTick is emitted, and whenever a countdown step
\* is taken, the timer has run for exactly one interval since the step
\* before (or since the start), however often the match was paused between.
PauseSuspendsCountdown ==
    [][/\ (paused /\ paused')
          => (countdown' = countdown /\ countdownTicks' = countdownTicks)
       /\ Len(countdownTicks') > Len(countdownTicks)
          => sinceStep = interval]_vars
====
